---- MODULE Spec2Model ----
(***************************************************************************)
(* Model of the HLS ingestion pipeline of ncd (src/hls/hls.rs):            *)
(* download_playlist resolves a playlist URL to a media playlist,          *)
(* parse_media_playlist establishes the playlist-level key, spawns the     *)
(* ffmpeg sink and the writer task, and streams every segment through      *)
(* parse_segment into a bounded tokio mpsc channel that the writer task    *)
(* drains into the sink's stdin.                                           *)
(*                                                                         *)
(* Byte strings are sequences of numbers, text is a sequence of one        *)
(* character strings.  AES itself is not computed: a segment body records  *)
(* the key it was encrypted under, and decryption validates its padding    *)
(* only under that key; the chunk records the key/IV pair it was decoded   *)
(* with.                                                                   *)
(***************************************************************************)
EXTENDS Integers, Sequences, FiniteSets, TLC

(* ------------------------------------------------------------------ *)
(* Bounds of the model                                                 *)
(* ------------------------------------------------------------------ *)
MaxSegs == 2
LongExtra == 3
MaxVariants == 4
MaxBw == 3
MaxHops == 12
MaxSrc == 3
MaxVideos == 3
MaxUrls == 2
PipeCap == 2
MaxCalls == 2

(* ------------------------------------------------------------------ *)
(* Program constants                                                   *)
(* ------------------------------------------------------------------ *)
ChannelCap == 100
KeyLen == 16
BlockSize == 16

None == <<>>

NoUri == "none"

Panic == << -1 >>

(* ------------------------------------------------------------------ *)
(* Byte strings and text                                               *)
(* ------------------------------------------------------------------ *)
Min(a, b) == IF a < b THEN a ELSE b

Take(s, n) == [i \in 1..Min(n, Len(s)) |-> s[i]]

Drop(s, n) == [i \in 1..(Len(s) - Min(n, Len(s))) |-> s[i + Min(n, Len(s))]]

ZeroIv == [i \in 1..16 |-> 0]

HexChars == <<"0", "1", "2", "3", "4", "5", "6", "7", "8", "9",
              "a", "b", "c", "d", "e", "f">>

HexUpper == <<"0", "1", "2", "3", "4", "5", "6", "7", "8", "9",
              "A", "B", "C", "D", "E", "F">>

IsHex(c) == \E i \in 1..16 : HexChars[i] = c \/ HexUpper[i] = c

HexVal(c) == (CHOOSE i \in 1..16 : HexChars[i] = c \/ HexUpper[i] = c) - 1

StartsWith0x(s) == Len(s) >= 2 /\ s[1] = "0" /\ s[2] = "x"

trim_start_matches_none(s) == s

RECURSIVE trim_start_matches_0x(_)
trim_start_matches_0x(s) ==
    IF StartsWith0x(s) THEN trim_start_matches_0x(Drop(s, 2)) ELSE s

hex_decode(s) ==
    IF Len(s) % 2 # 0 \/ \E i \in 1..Len(s) : ~IsHex(s[i])
    THEN Panic
    ELSE [i \in 1..(Len(s) \div 2) |-> 16 * HexVal(s[2 * i - 1]) + HexVal(s[2 * i])]

parse_iv(hex_iv) ==
    LET bytes == hex_decode(trim_start_matches_0x(hex_iv))
    IN  IF bytes = Panic \/ Len(bytes) # 16 THEN Panic ELSE bytes

(* ------------------------------------------------------------------ *)
(* The inputs: key tags, segment bodies, playlists, the servers        *)
(* ------------------------------------------------------------------ *)
IvZeroStr == <<"0", "x">> \o [i \in 1..32 |-> "0"]

IvOneStr == [i \in 1..32 |-> IF i % 2 = 1 THEN "0" ELSE "1"]

KeyA == [i \in 1..17 |-> i]

KeyShort == [i \in 1..8 |-> i]

ErrPage == [i \in 1..16 |-> 60]

KeyOfA == Take(KeyA, KeyLen)

NoTag == None

Tag(m, u, v) == [method |-> m, uri |-> u, iv |-> v]

Plain(n) == [len |-> n, plain |-> n, enc |-> None]

Cipher(n, p, k) == [len |-> n, plain |-> p, enc |-> k]

Seg(t, b) == [key |-> t, body |-> b]

SegPool ==
    { Seg(NoTag, Plain(10)),
      Seg(Tag("AES-128", "k1", IvZeroStr), Cipher(32, 20, KeyOfA)),
      Seg(Tag("AES-128", "k2", IvOneStr), Cipher(32, 30, KeyOfA)),
      Seg(Tag("AES-128", "k2", None), Cipher(48, 40, KeyOfA)),
      Seg(Tag("AES-128", NoUri, IvOneStr), Plain(20)),
      Seg(Tag("SAMPLE-AES", "k1", None), Plain(30)),
      Seg(NoTag, Cipher(32, 25, KeyOfA)) }

RECURSIVE SeqsUpTo(_, _)
SeqsUpTo(S, n) ==
    IF n = 0 THEN { <<>> }
    ELSE LET shorter == SeqsUpTo(S, n - 1)
         IN  shorter \cup { Append(s, x) : s \in { t \in shorter : Len(t) = n - 1 }, x \in S }

ExamplePlaylist == << Seg(NoTag, Plain(10)), Seg(NoTag, Plain(20)), Seg(NoTag, Plain(30)) >>

LongPlaylist == [i \in 1..(ChannelCap + LongExtra) |-> Seg(NoTag, Plain(1))]

Playlists == SeqsUpTo(SegPool, MaxSegs) \cup { ExamplePlaylist, LongPlaylist }

Variant(b, u) == [bandwidth |-> b, uri |-> u]

Page(u, media) ==
    CASE u = "u_media" -> [type |-> "media", segments |-> media]
      [] u = "u_master" -> [type |-> "master",
                            variants |-> << Variant(1, "u_garbage"), Variant(3, "u_loop"),
                                            Variant(3, "u_media"), Variant(2, "u_garbage") >>]
      [] u = "u_loop" -> [type |-> "master", variants |-> << Variant(1, "u_loop") >>]
      [] OTHER -> [type |-> "garbage"]

Inputs ==
    { [start |-> "u_media", media |-> p] : p \in Playlists }
    \cup { [start |-> u, media |-> ExamplePlaylist] : u \in {"u_master", "u_loop", "u_garbage"} }

TransportFail == [ok |-> FALSE]

Response(st, b) == [ok |-> TRUE, status |-> st, body |-> b]

KeyResponses ==
    { TransportFail, Response(200, KeyA), Response(200, KeyShort), Response(404, ErrPage) }

VariantUris == << "v1", "v2", "v3", "v4", "v5", "v6", "v7", "v8" >>

VariantLists ==
    { [i \in 1..Len(bs) |-> Variant(bs[i], VariantUris[i])] :
        bs \in SeqsUpTo(1..MaxBw, MaxVariants) \ { <<>> } }

(* ------------------------------------------------------------------ *)
(* State                                                               *)
(* ------------------------------------------------------------------ *)
VARIABLES
    input,      \* the start URL and the media playlist the server holds
    url,        \* download_playlist: the URL to fetch next
    pc,         \* position of the orchestrator task
    result,     \* what download() returned, "running" before
    key,        \* parse_media_playlist: playlist-level key
    iv,         \* parse_media_playlist: playlist-level IV
    idx,        \* segment loop: index of the current segment (1-based)
    seg_key,    \* segment loop: the pair handed to parse_segment
    buf,        \* parse_segment: the downloaded body, then the decoded chunk
    tmp_files,  \* number of segment temporary files that exist
    chan,       \* the mpsc channel's queue
    tx_open,    \* the Sender is alive
    rx_open,    \* the Receiver is alive
    wpc,        \* position of the writer task
    ts,         \* writer task: the chunk received last
    saw_close,  \* writer task: recv() returned None
    sink,       \* the ffmpeg process: none, running, exit_ok, exit_fail
    sink_in,    \* the chunks completely written to the sink's stdin
    sink_eof,   \* the sink's stdin was shut down while the sink was running
    getlog,     \* the GETs issued for keys, in order
    xfers,      \* number of segment transfers started
    pushed,     \* number of chunks the channel accepted
    variants,   \* variant selection: the variants of a master playlist
    target_pl,  \* variant selection: index of the chosen variant, 0 before
    hops,       \* download_playlist: number of playlists fetched
    x_in,       \* HttpXClient::download: source bytes, resume flag, first destination
    dest,       \* HttpXClient::download: the destination file
    x_pc,       \* position of download_with_retry
    x_result,   \* what download_with_retry returned, "running" before
    downloaded_size, \* HttpXClient::download: downloaded_size
    mode_append,     \* HttpXClient::download: mode_append
    x_resp,     \* HttpXClient::download: the response, its body not yet streamed
    range_req,  \* the Range start of the attempt's request, NoRange without
    att_start,  \* the destination file when the attempt started
    m_args,     \* main: Args (incremental, urls)
    m_pc,       \* main: position in the loop over the urls
    m_url,      \* main: index of the url being processed
    m_vid,      \* main: index of the channel video being processed
    m_files,    \* main: the output files that exist
    m_log,      \* main: what each call of download(vid) returned
    m_exit,     \* main: how the process ended, "running" before
    sink_err,   \* bytes the sink has written to its stderr pipe, which nobody reads
    sink_blocked, \* the sink is suspended in a write to its full stderr pipe
    d_args,     \* interrupt: args.incremental and the videos download() is called for
    d_pc,       \* interrupt: position of the main task inside download()
    d_call,     \* interrupt: index of the current call of download()
    DOWNLOADING_FILES, \* the registry of output paths
    disk,       \* the output paths at which a file exists
    disk_before,\* the output paths at which a file existed when the run started
    removed,    \* the output paths the signal handler removed
    d_exit      \* interrupt: how the process ended, "running" before

vars == << input, url, pc, result, key, iv, idx, seg_key, buf, tmp_files, chan,
           tx_open, rx_open, wpc, ts, saw_close, sink, sink_in, sink_eof,
           getlog, xfers, pushed, variants, target_pl, hops, x_in, dest, x_pc,
           x_result, downloaded_size, mode_append, x_resp, range_req, att_start,
           m_args, m_pc, m_url, m_vid, m_files, m_log, m_exit, sink_err, sink_blocked,
           d_args, d_pc, d_call, DOWNLOADING_FILES, disk, disk_before, removed, d_exit >>

orch_vars == << url, pc, result, key, iv, idx, seg_key, buf, tmp_files, getlog, xfers, hops >>

writer_vars == << wpc, ts, saw_close >>

sink_vars == << sink, sink_in, sink_eof >>

select_vars == << variants, target_pl >>

xfer_vars == << x_in, dest, x_pc, x_result, downloaded_size, mode_append, x_resp, range_req,
                att_start >>

main_vars == << m_args, m_pc, m_url, m_vid, m_files, m_log, m_exit >>

pipe_vars == << sink_err, sink_blocked >>

signal_vars == << d_args, d_pc, d_call, DOWNLOADING_FILES, disk, disk_before, removed, d_exit >>

side_vars == << select_vars, xfer_vars, main_vars, pipe_vars, signal_vars >>

segments == input.media

Running == result = "running"

IsErr(r) == r \notin { "running", "Ok" }

(* ------------------------------------------------------------------ *)
(* HLSDownloader::decrypt_hls_ts and the decode step of parse_segment  *)
(* ------------------------------------------------------------------ *)
decrypt_hls_ts_lenient(encrypted, k, v) ==
    IF encrypted.enc = k /\ encrypted.len # 0 /\ encrypted.len % BlockSize = 0
    THEN [err |-> FALSE, len |-> encrypted.plain, key |-> k, iv |-> v]
    ELSE [err |-> FALSE, len |-> encrypted.len, key |-> k, iv |-> v]

decrypt_hls_ts(encrypted, k, v) ==
    IF encrypted.len = 0 \/ encrypted.len % BlockSize # 0 THEN [err |-> TRUE]
    ELSE IF encrypted.enc = None \/ encrypted.enc # k THEN [err |-> TRUE]
    ELSE [err |-> FALSE, len |-> encrypted.plain, key |-> k, iv |-> v]

Decode(body, k, v) ==
    IF k # None /\ v # None
    THEN decrypt_hls_ts(body, k, v)
    ELSE [err |-> FALSE, len |-> body.len, key |-> None, iv |-> None]

Chunk(i, d) == [seg |-> i, len |-> d.len, key |-> d.key, iv |-> d.iv]

(* ------------------------------------------------------------------ *)
(* Variant selection: Iterator::max_by over mp.variants                *)
(* ------------------------------------------------------------------ *)
RECURSIVE max_by(_, _, _)
max_by(vs, acc, i) ==
    IF i > Len(vs) THEN acc
    ELSE max_by(vs, IF vs[acc].bandwidth > vs[i].bandwidth THEN acc ELSE i, i + 1)

RECURSIVE max_by_first(_, _, _)
max_by_first(vs, acc, i) ==
    IF i > Len(vs) THEN acc
    ELSE max_by_first(vs, IF vs[acc].bandwidth >= vs[i].bandwidth THEN acc ELSE i, i + 1)

SelectVariant_first(vs) == IF vs = <<>> THEN 0 ELSE max_by_first(vs, 1, 2)

SelectVariant(vs) == IF vs = <<>> THEN 0 ELSE max_by(vs, 1, 2)

(* ------------------------------------------------------------------ *)
(* Key resolution                                                      *)
(* ------------------------------------------------------------------ *)
KeyTooShort_never(body) == Len(body) < 1

KeyTooShort(body) == Len(body) < KeyLen

IvOf_zero(tag) == ZeroIv

IvOf(tag) == IF tag.iv # None THEN parse_iv(tag.iv) ELSE ZeroIv

DeclaresKey_anymethod(tag) == tag # NoTag /\ tag.uri # NoUri

DeclaresKey(tag) == tag # NoTag /\ tag.method = "AES-128" /\ tag.uri # NoUri

SegKeyPair_nofallback(tag, resp, k, v) ==
    IF DeclaresKey(tag) /\ ~KeyTooShort(resp.body)
    THEN << Take(resp.body, KeyLen), IvOf(tag) >>
    ELSE << None, None >>

SegKeyPair(tag, resp, k, v) ==
    IF DeclaresKey(tag) /\ ~KeyTooShort(resp.body)
    THEN << Take(resp.body, KeyLen), IvOf(tag) >>
    ELSE << k, v >>

Return(r) ==
    /\ pc' = "done"
    /\ result' = r
    /\ tx_open' = FALSE

NoRange == -1

File(e, d) == [exists |-> e, data |-> d]

XferIdle ==
    /\ x_in = [src |-> <<>>, resume |-> TRUE, dest0 |-> File(FALSE, <<>>)]
    /\ dest = File(FALSE, <<>>)
    /\ x_pc = "idle"
    /\ x_result = "running"
    /\ downloaded_size = 0
    /\ mode_append = FALSE
    /\ x_resp = Response(0, <<>>)
    /\ range_req = NoRange
    /\ att_start = File(FALSE, <<>>)

\* stderr is a pipe (Stdio::piped) that is never read: empty at the start
PipeQuiet ==
    /\ sink_err = 0
    /\ sink_blocked = FALSE

SignalIdle ==
    /\ d_args = [incremental |-> FALSE, vids |-> <<>>]
    /\ d_pc = "idle"
    /\ d_call = 0
    /\ DOWNLOADING_FILES = <<>>
    /\ disk = {}
    /\ disk_before = {}
    /\ removed = {}
    /\ d_exit = "running"

MainIdle ==
    /\ m_args = [incremental |-> FALSE, urls |-> <<>>]
    /\ m_pc = "idle"
    /\ m_url = 0
    /\ m_vid = 0
    /\ m_files = {}
    /\ m_log = <<>>
    /\ m_exit = "running"

(* ------------------------------------------------------------------ *)
(* Init: download(url, output, ffmpeg_args) has just been called       *)
(* ------------------------------------------------------------------ *)
Init ==
    /\ input \in Inputs
    /\ url = input.start
    /\ pc = "resolve"
    /\ result = "running"
    /\ key = None
    /\ iv = None
    /\ idx = 0
    /\ seg_key = << None, None >>
    /\ buf = None
    /\ tmp_files = 0
    /\ chan = <<>>
    /\ tx_open = FALSE
    /\ rx_open = FALSE
    /\ wpc = "none"
    /\ ts = None
    /\ saw_close = FALSE
    /\ sink = "none"
    /\ sink_in = <<>>
    /\ sink_eof = FALSE
    /\ getlog = <<>>
    /\ xfers = 0
    /\ pushed = 0
    /\ variants = <<>>
    /\ target_pl = 0
    /\ hops = 0
    /\ XferIdle
    /\ PipeQuiet
    /\ SignalIdle
    /\ MainIdle

(* ------------------------------------------------------------------ *)
(* download_playlist: one iteration of the resolution loop             *)
(* ------------------------------------------------------------------ *)
download_playlist ==
    /\ pc = "resolve"
    /\ hops < MaxHops
    /\ hops' = hops + 1
    /\ \E fetched \in BOOLEAN :
         LET page == Page(url, segments)
         IN  IF ~fetched
             THEN /\ Return("Http")
                  /\ UNCHANGED url
             ELSE IF page.type = "garbage"
             THEN /\ Return("panic")
                  /\ UNCHANGED url
             ELSE IF page.type = "media"
             THEN /\ pc' = "key"
                  /\ UNCHANGED << url, result, tx_open >>
             ELSE IF SelectVariant(page.variants) = 0
             THEN /\ Return("panic")
                  /\ UNCHANGED url
             ELSE /\ url' = page.variants[SelectVariant(page.variants)].uri
                  /\ UNCHANGED << pc, result, tx_open >>
    /\ UNCHANGED << input, key, iv, idx, seg_key, buf, tmp_files, chan, rx_open, getlog,
                    xfers, pushed >>
    /\ UNCHANGED << writer_vars, sink_vars, side_vars >>

(* ------------------------------------------------------------------ *)
(* parse_media_playlist, step 1: the playlist-level key                *)
(* ------------------------------------------------------------------ *)
EstablishKey ==
    /\ pc = "key"
    /\ IF segments # <<>> /\ DeclaresKey(segments[1].key)
       THEN \E resp \in KeyResponses :
              /\ getlog' = Append(getlog, [uri |-> segments[1].key.uri, seg |-> 0, resp |-> resp])
              /\ IF ~resp.ok
                 THEN /\ Return("Http")
                      /\ UNCHANGED << key, iv >>
                 ELSE IF KeyTooShort(resp.body)
                 THEN /\ Return("DecryptedError")
                      /\ UNCHANGED << key, iv >>
                 ELSE IF IvOf(segments[1].key) = Panic
                 THEN /\ Return("panic")
                      /\ UNCHANGED << key, iv >>
                 ELSE /\ key' = Take(resp.body, KeyLen)
                      /\ iv' = IvOf(segments[1].key)
                      /\ pc' = "spawn"
                      /\ UNCHANGED << result, tx_open >>
       ELSE /\ pc' = "spawn"
            /\ UNCHANGED << key, iv, getlog, result, tx_open >>
    /\ UNCHANGED << input, hops, url, idx, seg_key, buf, tmp_files, chan, rx_open, xfers, pushed >>
    /\ UNCHANGED << writer_vars, sink_vars, side_vars >>

(* ------------------------------------------------------------------ *)
(* parse_media_playlist, steps 2-4: channel, ffmpeg, writer task       *)
(* ------------------------------------------------------------------ *)
SpawnSink ==
    /\ pc = "spawn"
    /\ chan' = <<>>
    /\ tx_open' = TRUE
    /\ rx_open' = TRUE
    /\ sink' = "running"
    /\ wpc' = "recv"
    /\ IF segments = <<>>
       THEN pc' = "drop_tx" /\ idx' = 0
       ELSE pc' = "seg_key" /\ idx' = 1
    /\ UNCHANGED << input, hops, url, result, key, iv, seg_key, buf, tmp_files, getlog, xfers,
                    pushed, ts, saw_close, sink_in, sink_eof >>
    /\ UNCHANGED side_vars

(* ------------------------------------------------------------------ *)
(* parse_media_playlist, step 6: the key/IV pair of the current segment *)
(* ------------------------------------------------------------------ *)
SegKey_sticky ==
    /\ pc = "seg_key"
    /\ LET tag == segments[idx].key
       IN  IF DeclaresKey(tag)
           THEN \E resp \in KeyResponses :
                  /\ getlog' = Append(getlog, [uri |-> tag.uri, seg |-> idx, resp |-> resp])
                  /\ IF ~resp.ok
                     THEN /\ Return("Http")
                          /\ UNCHANGED seg_key
                     ELSE IF SegKeyPair(tag, resp, key, iv)[2] = Panic
                     THEN /\ Return("panic")
                          /\ UNCHANGED seg_key
                     ELSE /\ seg_key' = SegKeyPair(tag, resp, key, iv)
                          /\ pc' = "seg_xfer"
                          /\ UNCHANGED << result, tx_open >>
           ELSE /\ seg_key' = (IF idx = 1 THEN << key, iv >> ELSE seg_key)
                /\ pc' = "seg_xfer"
                /\ UNCHANGED << getlog, result, tx_open >>
    /\ UNCHANGED << input, hops, url, key, iv, idx, buf, tmp_files, chan, rx_open, xfers, pushed >>
    /\ UNCHANGED << writer_vars, sink_vars, side_vars >>

SegKey ==
    /\ pc = "seg_key"
    /\ LET tag == segments[idx].key
       IN  IF DeclaresKey(tag)
           THEN \E resp \in KeyResponses :
                  /\ getlog' = Append(getlog, [uri |-> tag.uri, seg |-> idx, resp |-> resp])
                  /\ IF ~resp.ok
                     THEN /\ Return("Http")
                          /\ UNCHANGED seg_key
                     ELSE IF SegKeyPair(tag, resp, key, iv)[2] = Panic
                     THEN /\ Return("panic")
                          /\ UNCHANGED seg_key
                     ELSE /\ seg_key' = SegKeyPair(tag, resp, key, iv)
                          /\ pc' = "seg_xfer"
                          /\ UNCHANGED << result, tx_open >>
           ELSE /\ seg_key' = << key, iv >>
                /\ pc' = "seg_xfer"
                /\ UNCHANGED << getlog, result, tx_open >>
    /\ UNCHANGED << input, hops, url, key, iv, idx, buf, tmp_files, chan, rx_open, xfers, pushed >>
    /\ UNCHANGED << writer_vars, sink_vars, side_vars >>

(* ------------------------------------------------------------------ *)
(* parse_segment: temporary file, transfer, read back                  *)
(* ------------------------------------------------------------------ *)
DropTmp_leak(n) == n

\* tmp_file goes out of scope at the end of parse_segment: the file is removed
DropTmp(n) == n - 1

\* the outcomes of lines 165-195: all went well, download_with_retry gave up, or the
\* temporary file could not be created or read back
TransferOutcomes == { "ok", "HttpXError", "IoError" }

SegTransfer_skip ==
    /\ pc = "seg_xfer"
    /\ xfers' = xfers + 1
    /\ \E out \in TransferOutcomes :
         IF out = "ok"
         THEN /\ buf' = segments[idx].body
              /\ tmp_files' = tmp_files + 1
              /\ pc' = "seg_decrypt"
              /\ UNCHANGED << idx, result, tx_open >>
         ELSE /\ IF idx < Len(segments)
                 THEN idx' = idx + 1 /\ pc' = "seg_key"
                 ELSE idx' = idx /\ pc' = "drop_tx"
              /\ UNCHANGED << buf, tmp_files, result, tx_open >>
    /\ UNCHANGED << input, hops, url, key, iv, seg_key, chan, rx_open, getlog, pushed >>
    /\ UNCHANGED << writer_vars, sink_vars, side_vars >>

SegTransfer ==
    /\ pc = "seg_xfer"
    /\ xfers' = xfers + 1
    /\ \E out \in TransferOutcomes :
         IF out = "ok"
         THEN /\ buf' = segments[idx].body
              /\ tmp_files' = tmp_files + 1
              /\ pc' = "seg_decrypt"
              /\ UNCHANGED << result, tx_open >>
         ELSE /\ Return(out)
              /\ UNCHANGED << buf, tmp_files >>
    /\ UNCHANGED << input, hops, url, key, iv, idx, seg_key, chan, rx_open, getlog, pushed >>
    /\ UNCHANGED << writer_vars, sink_vars, side_vars >>

(* ------------------------------------------------------------------ *)
(* parse_segment: decrypt or pass through                              *)
(* ------------------------------------------------------------------ *)
SegDecrypt ==
    /\ pc = "seg_decrypt"
    /\ LET decrypted == Decode(buf, seg_key[1], seg_key[2])
       IN  IF decrypted.err
           THEN /\ Return("DecryptedError")
                /\ buf' = None
                /\ tmp_files' = DropTmp(tmp_files)
           ELSE /\ buf' = Chunk(idx, decrypted)
                /\ pc' = "seg_send"
                /\ UNCHANGED << result, tx_open, tmp_files >>
    /\ UNCHANGED << input, hops, url, key, iv, idx, seg_key, chan, rx_open, getlog, xfers, pushed >>
    /\ UNCHANGED << writer_vars, sink_vars, side_vars >>

(* ------------------------------------------------------------------ *)
(* parse_segment: tx.send(decrypted).await, then the loop's next turn  *)
(* ------------------------------------------------------------------ *)
CanSend_unbounded(q) == TRUE

CanSend(q) == Len(q) < ChannelCap

SegSend_nowait ==
    /\ pc = "seg_send"
    /\ IF ~rx_open
       THEN /\ Return("SendError")
            /\ UNCHANGED << chan, pushed, idx >>
       ELSE /\ IF CanSend(chan)
               THEN chan' = Append(chan, buf) /\ pushed' = pushed + 1
               ELSE UNCHANGED << chan, pushed >>
            /\ IF idx < Len(segments)
               THEN idx' = idx + 1 /\ pc' = "seg_key"
               ELSE idx' = idx /\ pc' = "drop_tx"
            /\ UNCHANGED << result, tx_open >>
    /\ buf' = None
    /\ tmp_files' = DropTmp(tmp_files)
    /\ UNCHANGED << input, hops, url, key, iv, seg_key, rx_open, getlog, xfers >>
    /\ UNCHANGED << writer_vars, sink_vars, side_vars >>

SegSend ==
    /\ pc = "seg_send"
    /\ IF ~rx_open
       THEN /\ Return("SendError")
            /\ UNCHANGED << chan, pushed, idx >>
       ELSE /\ CanSend(chan)
            /\ chan' = Append(chan, buf)
            /\ pushed' = pushed + 1
            /\ IF idx < Len(segments)
               THEN idx' = idx + 1 /\ pc' = "seg_key"
               ELSE idx' = idx /\ pc' = "drop_tx"
            /\ UNCHANGED << result, tx_open >>
    /\ buf' = None
    /\ tmp_files' = DropTmp(tmp_files)
    /\ UNCHANGED << input, hops, url, key, iv, seg_key, rx_open, getlog, xfers >>
    /\ UNCHANGED << writer_vars, sink_vars, side_vars >>

(* ------------------------------------------------------------------ *)
(* parse_media_playlist, step 7: drop(tx); writer.await                *)
(* ------------------------------------------------------------------ *)
DropTx ==
    /\ pc = "drop_tx"
    /\ tx_open' = FALSE
    /\ pc' = "join"
    /\ UNCHANGED << input, hops, url, result, key, iv, idx, seg_key, buf, tmp_files, chan, rx_open,
                    getlog, xfers, pushed >>
    /\ UNCHANGED << writer_vars, sink_vars, side_vars >>

WriterDone_nowait == TRUE

WriterDone == wpc = "finished"

JoinWriter ==
    /\ pc = "join"
    /\ WriterDone
    /\ pc' = "wait"
    /\ UNCHANGED << input, hops, url, result, key, iv, idx, seg_key, buf, tmp_files, chan, tx_open,
                    rx_open, getlog, xfers, pushed >>
    /\ UNCHANGED << writer_vars, sink_vars, side_vars >>

(* ------------------------------------------------------------------ *)
(* parse_media_playlist, step 8: ffmpeg.wait() and its status          *)
(* ------------------------------------------------------------------ *)
StatusResult_ok(st) == "Ok"

StatusResult(st) == IF st = "exit_ok" THEN "Ok" ELSE "IoError"

WaitSink ==
    /\ pc = "wait"
    /\ sink \in { "exit_ok", "exit_fail" }
    /\ pc' = "done"
    /\ result' = StatusResult(sink)
    /\ UNCHANGED << input, hops, url, key, iv, idx, seg_key, buf, tmp_files, chan, tx_open, rx_open,
                    getlog, xfers, pushed >>
    /\ UNCHANGED << writer_vars, sink_vars, side_vars >>

(* ------------------------------------------------------------------ *)
(* The writer task                                                     *)
(* ------------------------------------------------------------------ *)
WRecv ==
    /\ wpc = "recv"
    /\ IF chan # <<>>
       THEN /\ ts' = Head(chan)
            /\ chan' = Tail(chan)
            /\ wpc' = "write"
            /\ UNCHANGED saw_close
       ELSE /\ ~tx_open
            /\ saw_close' = TRUE
            /\ wpc' = "final_flush"
            /\ UNCHANGED << ts, chan >>
    /\ UNCHANGED << input, orch_vars, tx_open, rx_open, pushed, sink_vars, side_vars >>

WWrite_noflush ==
    /\ wpc = "write"
    /\ IF sink = "running"
       THEN /\ sink_in' = Append(sink_in, ts)
            /\ wpc' = "recv"
       ELSE /\ wpc' = "final_flush"
            /\ UNCHANGED sink_in
    /\ UNCHANGED << input, orch_vars, chan, tx_open, rx_open, pushed, ts, saw_close, sink,
                    sink_eof, side_vars >>

WWrite ==
    /\ wpc = "write"
    /\ ~sink_blocked
    /\ IF sink = "running"
       THEN /\ sink_in' = Append(sink_in, ts)
            /\ wpc' = "flush"
       ELSE /\ wpc' = "final_flush"
            /\ UNCHANGED sink_in
    /\ UNCHANGED << input, orch_vars, chan, tx_open, rx_open, pushed, ts, saw_close, sink,
                    sink_eof, side_vars >>

WFlush ==
    /\ wpc = "flush"
    /\ \E ok \in (IF sink = "running" THEN { TRUE } ELSE BOOLEAN) :
         wpc' = IF ok THEN "recv" ELSE "final_flush"
    /\ UNCHANGED << input, orch_vars, chan, tx_open, rx_open, pushed, ts, saw_close,
                    sink_vars, side_vars >>

WFinalFlush ==
    /\ wpc = "final_flush"
    /\ wpc' = "shutdown"
    /\ UNCHANGED << input, orch_vars, chan, tx_open, rx_open, pushed, ts, saw_close,
                    sink_vars, side_vars >>

WShutdown_keeps_rx ==
    /\ wpc = "shutdown"
    /\ wpc' = "finished"
    /\ sink_eof' = (sink_eof \/ sink = "running")
    /\ UNCHANGED << input, orch_vars, chan, tx_open, rx_open, pushed, ts, saw_close, sink,
                    sink_in, side_vars >>

WShutdown ==
    /\ wpc = "shutdown"
    /\ wpc' = "finished"
    /\ sink_eof' = (sink_eof \/ sink = "running")
    /\ rx_open' = FALSE
    /\ chan' = <<>>
    /\ UNCHANGED << input, orch_vars, tx_open, pushed, ts, saw_close, sink, sink_in,
                    side_vars >>

(* ------------------------------------------------------------------ *)
(* The sink process: it exits when it chooses to, with either status   *)
(* ------------------------------------------------------------------ *)
SinkExit ==
    /\ sink = "running"
    /\ ~sink_blocked
    /\ \E st \in { "exit_ok", "exit_fail" } : sink' = st
    /\ UNCHANGED << input, orch_vars, chan, tx_open, rx_open, pushed, writer_vars, sink_in,
                    sink_eof, side_vars >>

Next ==
    \/ download_playlist
    \/ EstablishKey
    \/ SpawnSink
    \/ SegKey
    \/ SegTransfer
    \/ SegDecrypt
    \/ SegSend
    \/ DropTx
    \/ JoinWriter
    \/ WaitSink
    \/ WRecv
    \/ WWrite
    \/ WFlush
    \/ WFinalFlush
    \/ WShutdown
    \/ SinkExit

Spec == Init /\ [][Next]_vars

(* ------------------------------------------------------------------ *)
(* The pipeline with a sink that writes to its stderr                  *)
(* ------------------------------------------------------------------ *)
\* the sink writes one more unit to stderr, or suspends because the pipe is full
SinkStderr ==
    /\ sink = "running"
    /\ ~sink_blocked
    /\ IF sink_err < PipeCap
       THEN sink_err' = sink_err + 1 /\ UNCHANGED sink_blocked
       ELSE sink_blocked' = TRUE /\ UNCHANGED sink_err
    /\ UNCHANGED << input, orch_vars, chan, tx_open, rx_open, pushed, writer_vars, sink_vars,
                    select_vars, xfer_vars, main_vars, signal_vars >>

PipeInputs ==
    { [start |-> u, media |-> ExamplePlaylist] : u \in { "u_media", "u_master" } }
    \cup { [start |-> "u_media", media |-> <<>>] }

InitPipe == Init /\ input \in PipeInputs

NextPipe == Next \/ SinkStderr

SpecPipe == InitPipe /\ [][NextPipe]_vars

(* ------------------------------------------------------------------ *)
(* Variant selection on its own: every variant list up to the bounds   *)
(* ------------------------------------------------------------------ *)
InitSelect ==
    /\ variants \in VariantLists
    /\ target_pl = 0
    /\ hops = 0
    /\ XferIdle
    /\ PipeQuiet
    /\ SignalIdle
    /\ MainIdle
    /\ input = [start |-> "u_master", media |-> <<>>]
    /\ url = "u_master"
    /\ pc = "resolve"
    /\ result = "running"
    /\ key = None
    /\ iv = None
    /\ idx = 0
    /\ seg_key = << None, None >>
    /\ buf = None
    /\ tmp_files = 0
    /\ chan = <<>>
    /\ tx_open = FALSE
    /\ rx_open = FALSE
    /\ wpc = "none"
    /\ ts = None
    /\ saw_close = FALSE
    /\ sink = "none"
    /\ sink_in = <<>>
    /\ sink_eof = FALSE
    /\ getlog = <<>>
    /\ xfers = 0
    /\ pushed = 0

ChooseVariant ==
    /\ pc = "resolve"
    /\ target_pl = 0
    /\ target_pl' = SelectVariant(variants)
    /\ url' = variants[target_pl'].uri
    /\ UNCHANGED << input, hops, pc, result, key, iv, idx, seg_key, buf, tmp_files, chan,
                    tx_open, rx_open, getlog, xfers, pushed, variants >>
    /\ UNCHANGED << writer_vars, sink_vars, xfer_vars, main_vars, pipe_vars, signal_vars >>

NextSelect == ChooseVariant

SpecSelect == InitSelect /\ [][NextSelect]_vars

(* ------------------------------------------------------------------ *)
(* IV resolution on its own: a playlist of one segment whose key tag   *)
(* carries each IV text of a family of 32-digit hex strings, with and  *)
(* without the 0x prefix, or no IV                                     *)
(* ------------------------------------------------------------------ *)
(* HttpXClient::download and download_with_retry (httpx/client.rs)     *)
(* ------------------------------------------------------------------ *)
Bytes(n) == [i \in 1..n |-> i]

Stale(n) == [i \in 1..n |-> 9]

IsPrefix(p, s) == Len(p) <= Len(s) /\ p = SubSeq(s, 1, Len(p))

\* step 1: the size already on disk counts only when resuming an existing file
ResumeSize(resume, d) == IF resume /\ d.exists THEN Len(d.data) ELSE 0

\* step 2: the Range header "bytes=<size>-"
RangeOf(resume, size) == IF resume /\ size > 0 THEN size ELSE NoRange

RangeIgnored_never(resume, size, status) == FALSE

\* step 3: a range was requested and the answer is not 206 Partial Content
RangeIgnored(resume, size, status) == resume /\ size > 0 /\ status # 206

OpenFile_truncate(d, append) == File(TRUE, <<>>)

\* step 5: create(true).write(true).append(mode_append).truncate(!mode_append)
OpenFile(d, append) == File(TRUE, IF append THEN d.data ELSE <<>>)

\* a server that honours Range
Honour(src, rng) ==
    IF rng = NoRange THEN Response(200, src)
    ELSE IF rng < Len(src) THEN Response(206, SubSeq(src, rng + 1, Len(src)))
    ELSE Response(416, <<>>)

\* what one request can come back with
ServerResponses(src, rng) ==
    { TransportFail, Response(503, <<>>), Response(200, src), Honour(src, rng) }

XferInputs ==
    { [src |-> Bytes(t), resume |-> r, dest0 |-> d] :
        t \in 0..MaxSrc, r \in BOOLEAN,
        d \in { File(FALSE, <<>>) } \cup { File(TRUE, Bytes(l)) : l \in 0..MaxSrc }
                \cup { File(TRUE, Stale(l)) : l \in 1..MaxSrc } }

InitXfer ==
    /\ input = [start |-> "u_media", media |-> <<>>]
    /\ url = "u_media"
    /\ pc = "done"
    /\ result = "running"
    /\ key = None
    /\ iv = None
    /\ idx = 1
    /\ seg_key = << None, None >>
    /\ buf = None
    /\ tmp_files = 0
    /\ chan = <<>>
    /\ tx_open = FALSE
    /\ rx_open = FALSE
    /\ wpc = "none"
    /\ ts = None
    /\ saw_close = FALSE
    /\ sink = "none"
    /\ sink_in = <<>>
    /\ sink_eof = FALSE
    /\ getlog = <<>>
    /\ xfers = 0
    /\ pushed = 0
    /\ variants = <<>>
    /\ target_pl = 0
    /\ hops = 0
    /\ x_in \in XferInputs
    /\ dest = x_in.dest0
    /\ x_pc = "begin"
    /\ x_result = "running"
    /\ downloaded_size = 0
    /\ mode_append = FALSE
    /\ x_resp = Response(0, <<>>)
    /\ range_req = NoRange
    /\ att_start = x_in.dest0
    /\ MainIdle
    /\ PipeQuiet
    /\ SignalIdle

\* download, steps 1 to 5: size on disk, request, status, fallback, open
download_open ==
    /\ x_pc = "begin"
    /\ LET size == ResumeSize(x_in.resume, dest)
           rng  == RangeOf(x_in.resume, size)
       IN  /\ att_start' = dest
           /\ range_req' = rng
           /\ \E r \in ServerResponses(x_in.src, rng) :
                IF ~r.ok
                THEN /\ x_pc' = "failed"
                     /\ x_resp' = r
                     /\ downloaded_size' = size
                     /\ mode_append' = (size > 0)
                     /\ UNCHANGED dest
                ELSE IF r.status >= 400
                THEN /\ x_pc' = "failed"
                     /\ x_resp' = r
                     /\ downloaded_size' = size
                     /\ mode_append' = (size > 0)
                     /\ UNCHANGED dest
                ELSE LET ignored == RangeIgnored(x_in.resume, size, r.status)
                         app     == size > 0 /\ ~ignored
                     IN  /\ x_resp' = r
                         /\ downloaded_size' = IF ignored THEN 0 ELSE size
                         /\ mode_append' = app
                         /\ dest' = OpenFile(dest, app)
                         /\ x_pc' = "stream"
    /\ UNCHANGED << x_in, x_result >>
    /\ UNCHANGED << input, orch_vars, chan, tx_open, rx_open, pushed, writer_vars, sink_vars,
                    select_vars, main_vars, pipe_vars, signal_vars >>

\* download, step 6: one chunk of the body stream, its end, or its failure
download_stream ==
    /\ x_pc = "stream"
    /\ IF x_resp.body = <<>>
       THEN /\ \E ended \in BOOLEAN :
                 IF ended
                 THEN x_pc' = "done" /\ x_result' = "Ok"
                 ELSE x_pc' = "failed" /\ UNCHANGED x_result
            /\ UNCHANGED << dest, downloaded_size, x_resp >>
       ELSE \E n \in 0..Len(x_resp.body) :
              IF n = 0
              THEN /\ x_pc' = "failed"
                   /\ UNCHANGED << dest, downloaded_size, x_resp, x_result >>
              ELSE /\ dest' = [dest EXCEPT !.data = @ \o Take(x_resp.body, n)]
                   /\ downloaded_size' = downloaded_size + n
                   /\ x_resp' = [x_resp EXCEPT !.body = Drop(@, n)]
                   /\ UNCHANGED << x_pc, x_result >>
    /\ UNCHANGED << x_in, mode_append, range_req, att_start >>
    /\ UNCHANGED << input, orch_vars, chan, tx_open, rx_open, pushed, writer_vars, sink_vars,
                    select_vars, main_vars, pipe_vars, signal_vars >>

\* download_with_retry: a failed attempt is run again until the backoff gives up
download_with_retry ==
    /\ x_pc = "failed"
    /\ \E again \in BOOLEAN :
         IF again
         THEN /\ x_pc' = "begin"
              /\ UNCHANGED x_result
         ELSE /\ x_pc' = "done"
              /\ x_result' = "Err"
    /\ UNCHANGED << x_in, dest, downloaded_size, mode_append, x_resp, range_req, att_start >>
    /\ UNCHANGED << input, orch_vars, chan, tx_open, rx_open, pushed, writer_vars, sink_vars,
                    select_vars, main_vars, pipe_vars, signal_vars >>

NextXfer == download_open \/ download_stream \/ download_with_retry

SpecXfer == InitXfer /\ [][NextXfer]_vars

(* ------------------------------------------------------------------ *)
(* main: the loop over the urls and over a channel's videos (main.rs)  *)
(* ------------------------------------------------------------------ *)
VideoIds == 1..MaxVideos

\* a url names one video or a channel with some videos
Shapes ==
    { [kind |-> "video", n |-> 1] } \cup { [kind |-> "channel", n |-> k] : k \in 0..MaxVideos }

RECURSIVE Total(_, _)
Total(sh, i) == IF i = 0 THEN 0 ELSE Total(sh, i - 1) + sh[i].n

\* the videos are numbered in the order the urls list them
UrlsOf(sh) ==
    [i \in 1..Len(sh) |->
        [kind |-> sh[i].kind, vids |-> [j \in 1..sh[i].n |-> Total(sh, i - 1) + j]]]

UrlLists ==
    { UrlsOf(sh) : sh \in { t \in SeqsUpTo(Shapes, MaxUrls) \ { <<>> } :
                              Total(t, Len(t)) <= MaxVideos } }

PipelineIdle ==
    /\ input = [start |-> "u_media", media |-> <<>>]
    /\ url = "u_media"
    /\ pc = "done"
    /\ result = "running"
    /\ key = None
    /\ iv = None
    /\ idx = 1
    /\ seg_key = << None, None >>
    /\ buf = None
    /\ tmp_files = 0
    /\ chan = <<>>
    /\ tx_open = FALSE
    /\ rx_open = FALSE
    /\ wpc = "none"
    /\ ts = None
    /\ saw_close = FALSE
    /\ sink = "none"
    /\ sink_in = <<>>
    /\ sink_eof = FALSE
    /\ getlog = <<>>
    /\ xfers = 0
    /\ pushed = 0
    /\ variants = <<>>
    /\ target_pl = 0
    /\ hops = 0

InitMain ==
    /\ PipelineIdle
    /\ XferIdle
    /\ PipeQuiet
    /\ SignalIdle
    /\ m_args \in [incremental : BOOLEAN, urls : UrlLists]
    /\ m_pc = "url"
    /\ m_url = 1
    /\ m_vid = 0
    /\ m_files \in SUBSET VideoIds
    /\ m_log = <<>>
    /\ m_exit = "running"

\* download(nc, args, vid): video_info or the HLS url fails, the output file exists,
\* or download_video runs and ends well or badly (a failed run may leave its file)
DownloadResults(vid, files) ==
    { [res |-> "error", files |-> files] }
    \cup (IF vid \in files
          THEN { [res |-> "exist", files |-> files] }
          ELSE { [res |-> "ok", files |-> files \cup { vid }],
                 [res |-> "error", files |-> files \cup { vid }] })

StopsOnExist_never(incremental, res) == FALSE

\* Err(e) with e a NicoChannelError and args.incremental: return Ok(())
StopsOnExist(incremental, res) == res = "exist" /\ incremental

\* the head of `for url in &args.urls`: captures, load_channel_id, video_pages
main_url ==
    /\ m_pc = "url"
    /\ IF m_url > Len(m_args.urls)
       THEN /\ m_pc' = "done"
            /\ m_exit' = "ok"
            /\ UNCHANGED << m_url, m_vid >>
       ELSE \E setup \in BOOLEAN :
              IF ~setup
              THEN /\ m_pc' = "done"
                   /\ m_exit' = "err"
                   /\ UNCHANGED << m_url, m_vid >>
              ELSE /\ m_pc' = m_args.urls[m_url].kind
                   /\ m_vid' = 1
                   /\ UNCHANGED << m_url, m_exit >>
    /\ UNCHANGED << m_args, m_files, m_log >>
    /\ UNCHANGED << input, orch_vars, chan, tx_open, rx_open, pushed, writer_vars, sink_vars,
                    select_vars, xfer_vars, pipe_vars, signal_vars >>

\* `if let Some(vid) = video_id`: one download, then the next url
main_video ==
    /\ m_pc = "video"
    /\ LET vid == m_args.urls[m_url].vids[1]
       IN  \E r \in DownloadResults(vid, m_files) :
             /\ m_log' = Append(m_log, [vid |-> vid, res |-> r.res])
             /\ m_files' = r.files
             /\ IF StopsOnExist(m_args.incremental, r.res)
                THEN /\ m_pc' = "done"
                     /\ m_exit' = "ok"
                     /\ UNCHANGED m_url
                ELSE /\ m_pc' = "url"
                     /\ m_url' = m_url + 1
                     /\ UNCHANGED m_exit
    /\ UNCHANGED << m_args, m_vid >>
    /\ UNCHANGED << input, orch_vars, chan, tx_open, rx_open, pushed, writer_vars, sink_vars,
                    select_vars, xfer_vars, pipe_vars, signal_vars >>

\* one turn of `for video in videos`
main_channel ==
    /\ m_pc = "channel"
    /\ LET vids == m_args.urls[m_url].vids
       IN  IF m_vid > Len(vids)
           THEN /\ m_pc' = "url"
                /\ m_url' = m_url + 1
                /\ UNCHANGED << m_vid, m_files, m_log, m_exit >>
           ELSE \E eligible \in BOOLEAN :
                  IF ~eligible
                  THEN /\ m_vid' = m_vid + 1
                       /\ UNCHANGED << m_pc, m_url, m_files, m_log, m_exit >>
                  ELSE \E r \in DownloadResults(vids[m_vid], m_files) :
                         /\ m_log' = Append(m_log, [vid |-> vids[m_vid], res |-> r.res])
                         /\ m_files' = r.files
                         /\ IF StopsOnExist(m_args.incremental, r.res)
                            THEN /\ m_pc' = "done"
                                 /\ m_exit' = "ok"
                                 /\ UNCHANGED << m_url, m_vid >>
                            ELSE /\ m_vid' = m_vid + 1
                                 /\ UNCHANGED << m_pc, m_url, m_exit >>
    /\ UNCHANGED m_args
    /\ UNCHANGED << input, orch_vars, chan, tx_open, rx_open, pushed, writer_vars, sink_vars,
                    select_vars, xfer_vars, pipe_vars, signal_vars >>

NextMain == main_url \/ main_video \/ main_channel

SpecMain == InitMain /\ [][NextMain]_vars

(* ------------------------------------------------------------------ *)
(* download() and the signal handler task (main.rs, nicochannel)       *)
(* ------------------------------------------------------------------ *)
\* output_dir.join("{title} - {content_code}.mkv"): one path per content code
output_file(vid) == << vid, "mkv" >>

OutputPaths == { output_file(v) : v \in VideoIds }

InitSignal ==
    /\ PipelineIdle
    /\ XferIdle
    /\ PipeQuiet
    /\ MainIdle
    /\ d_args \in [incremental : BOOLEAN, vids : SeqsUpTo(VideoIds, MaxCalls) \ { <<>> }]
    /\ d_pc = "download"
    /\ d_call = 1
    /\ DOWNLOADING_FILES = <<>>
    /\ disk \in SUBSET OutputPaths
    /\ disk_before = disk
    /\ removed = {}
    /\ d_exit = "running"

\* files.retain(|f| f != &output_file)
retain(files, path) == SelectSeq(files, LAMBDA f : f # path)

\* the match on download()'s result in main and the next turn of its loop
Returned(res) ==
    IF StopsOnExist(d_args.incremental, res) \/ d_call = Len(d_args.vids)
    THEN /\ d_pc' = "done"
         /\ d_exit' = "ok"
         /\ UNCHANGED d_call
    ELSE /\ d_pc' = "download"
         /\ d_call' = d_call + 1
         /\ UNCHANGED d_exit

\* download_video returned: download() takes the path out of the registry and returns
Unregister(res) ==
    /\ DOWNLOADING_FILES' = retain(DOWNLOADING_FILES, output_file(d_args.vids[d_call]))
    /\ Returned(res)

\* download(): video_info, title and content_code, then the path is registered and
\* download_video is called
download_register ==
    /\ d_exit = "running"
    /\ d_pc = "download"
    /\ \E info \in BOOLEAN :
         IF ~info
         THEN /\ Returned("error")
              /\ UNCHANGED DOWNLOADING_FILES
         ELSE /\ DOWNLOADING_FILES' = Append(DOWNLOADING_FILES, output_file(d_args.vids[d_call]))
              /\ d_pc' = "dv_info"
              /\ UNCHANGED << d_call, d_exit >>
    /\ UNCHANGED << d_args, disk, disk_before, removed >>
    /\ UNCHANGED << input, orch_vars, chan, tx_open, rx_open, pushed, writer_vars, sink_vars,
                    select_vars, xfer_vars, main_vars, pipe_vars >>

\* download_video, step 1: video_info, get_video_hls_url, then output_file.exists()
download_video_exists ==
    /\ d_exit = "running"
    /\ d_pc = "dv_info"
    /\ \E hls_url \in BOOLEAN :
         IF ~hls_url
         THEN Unregister("error")
         ELSE IF output_file(d_args.vids[d_call]) \in disk
         THEN Unregister("exist")
         ELSE /\ d_pc' = "dv_thumbnail"
              /\ UNCHANGED << d_call, d_exit, DOWNLOADING_FILES >>
    /\ UNCHANGED << d_args, disk, disk_before, removed >>
    /\ UNCHANGED << input, orch_vars, chan, tx_open, rx_open, pushed, writer_vars, sink_vars,
                    select_vars, xfer_vars, main_vars, pipe_vars >>

\* download_video, step 2: the thumbnail goes to a temporary file
download_video_thumbnail ==
    /\ d_exit = "running"
    /\ d_pc = "dv_thumbnail"
    /\ \E fetched \in BOOLEAN :
         IF ~fetched
         THEN Unregister("error")
         ELSE /\ d_pc' = "dv_hls"
              /\ UNCHANGED << d_call, d_exit, DOWNLOADING_FILES >>
    /\ UNCHANGED << d_args, disk, disk_before, removed >>
    /\ UNCHANGED << input, orch_vars, chan, tx_open, rx_open, pushed, writer_vars, sink_vars,
                    select_vars, xfer_vars, main_vars, pipe_vars >>

\* download_video, step 4: hls_downloader.download fails before it starts ffmpeg, or
\* ffmpeg is started and opens the output file
download_video_hls ==
    /\ d_exit = "running"
    /\ d_pc = "dv_hls"
    /\ \E spawned \in BOOLEAN :
         IF ~spawned
         THEN /\ Unregister("error")
              /\ UNCHANGED disk
         ELSE /\ disk' = disk \cup { output_file(d_args.vids[d_call]) }
              /\ d_pc' = "dv_ffmpeg"
              /\ UNCHANGED << d_call, d_exit, DOWNLOADING_FILES >>
    /\ UNCHANGED << d_args, disk_before, removed >>
    /\ UNCHANGED << input, orch_vars, chan, tx_open, rx_open, pushed, writer_vars, sink_vars,
                    select_vars, xfer_vars, main_vars, pipe_vars >>

\* download_video, step 4 ends: hls_downloader.download returns; nothing removes the
\* output file of a download that failed
download_video_return ==
    /\ d_exit = "running"
    /\ d_pc = "dv_ffmpeg"
    /\ \E res \in { "ok", "error" } : Unregister(res)
    /\ UNCHANGED << d_args, disk, disk_before, removed >>
    /\ UNCHANGED << input, orch_vars, chan, tx_open, rx_open, pushed, writer_vars, sink_vars,
                    select_vars, xfer_vars, main_vars, pipe_vars >>

\* the files the handler's loop removes: the registered paths at which a file exists
Doomed(files, existing) == { files[i] : i \in 1..Len(files) } \cap existing

\* the task spawned in main: SIGINT or SIGTERM arrives, the registered files that exist
\* are removed under the registry's lock, the process exits with 130
signal_handler ==
    /\ d_exit = "running"
    /\ d_pc # "idle"
    /\ removed' = removed \cup Doomed(DOWNLOADING_FILES, disk)
    /\ disk' = disk \ Doomed(DOWNLOADING_FILES, disk)
    /\ d_exit' = "130"
    /\ UNCHANGED << d_args, d_pc, d_call, DOWNLOADING_FILES, disk_before >>
    /\ UNCHANGED << input, orch_vars, chan, tx_open, rx_open, pushed, writer_vars, sink_vars,
                    select_vars, xfer_vars, main_vars, pipe_vars >>

NextSignal ==
    \/ download_register
    \/ download_video_exists
    \/ download_video_thumbnail
    \/ download_video_hls
    \/ download_video_return
    \/ signal_handler

SpecSignal == InitSignal /\ [][NextSignal]_vars

(* ------------------------------------------------------------------ *)
HexFamily ==
    { << d1, d2 >> \o [i \in 1..30 |-> d3] :
        d1 \in { HexChars[i] : i \in 1..16 } \cup { HexUpper[i] : i \in 1..16 },
        d2 \in { HexChars[i] : i \in 1..16 } \cup { HexUpper[i] : i \in 1..16 },
        d3 \in { "0", "c" } }

IvInputs == HexFamily \cup { << "0", "x" >> \o h : h \in HexFamily } \cup { None }

InitIv ==
    /\ \E s \in IvInputs :
          input = [start |-> "u_media",
                   media |-> << Seg(Tag("AES-128", "k1", s), Cipher(32, 20, KeyOfA)) >>]
    /\ url = "u_media"
    /\ pc = "key"
    /\ result = "running"
    /\ key = None
    /\ iv = None
    /\ idx = 0
    /\ seg_key = << None, None >>
    /\ buf = None
    /\ tmp_files = 0
    /\ chan = <<>>
    /\ tx_open = FALSE
    /\ rx_open = FALSE
    /\ wpc = "none"
    /\ ts = None
    /\ saw_close = FALSE
    /\ sink = "none"
    /\ sink_in = <<>>
    /\ sink_eof = FALSE
    /\ getlog = <<>>
    /\ xfers = 0
    /\ pushed = 0
    /\ variants = <<>>
    /\ target_pl = 0
    /\ hops = 0
    /\ XferIdle
    /\ PipeQuiet
    /\ SignalIdle
    /\ MainIdle

NextIv ==
    \/ EstablishKey
    \/ SpawnSink
    \/ SegKey

SpecIv == InitIv /\ [][NextIv]_vars

(* ------------------------------------------------------------------ *)
(* Properties                                                          *)
(* ------------------------------------------------------------------ *)
LastGet == getlog[Len(getlog)]

ShortBody(r) == r.ok /\ Len(r.body) < 16

InSegment == pc \in { "seg_xfer", "seg_decrypt", "seg_send" }

LoopErrors == { "Http", "HttpXError", "DecryptedError", "SendError" }

(* C1: the chunks written to the sink's stdin are a prefix of the playlist's
   segments in playlist order, one write per segment, and when download()
   returns Ok every segment of the playlist has been written. *)
C1_SinkGetsPlaylistInOrder ==
    /\ Len(sink_in) <= Len(segments)
    /\ \A j \in 1..Len(sink_in) : sink_in[j].seg = j
    /\ result = "Ok" => Len(sink_in) = Len(segments)

(* C2: the channel never holds more than 100 chunks, and while a send is
   pending on a channel that holds 100 and whose receiver is alive, the
   producer makes no step: it stays at the send of the same segment. *)
C2_Backpressure ==
    /\ [](Len(chan) <= 100)
    /\ [][(pc = "seg_send" /\ Len(chan) = 100 /\ rx_open)
            => UNCHANGED << pc, idx, pushed, xfers, result >>]_vars

C2_Witness == pc = "seg_send" /\ Len(chan) = 100 /\ rx_open /\ wpc = "recv"

(* C3 as stated: the chosen variant has the maximum bandwidth and is the
   first variant of the playlist that has it. *)
C3_FirstMaxWins ==
    target_pl # 0 =>
        /\ \A j \in 1..Len(variants) : variants[j].bandwidth <= variants[target_pl].bandwidth
        /\ \A j \in 1..(target_pl - 1) : variants[j].bandwidth < variants[target_pl].bandwidth

(* C3 amended: resolution continues with a variant of maximum bandwidth, and
   among several variants of that bandwidth with the one declared last. *)
C3_LastMaxWins ==
    target_pl # 0 =>
        /\ target_pl \in 1..Len(variants)
        /\ url = variants[target_pl].uri
        /\ \A j \in 1..Len(variants) : variants[j].bandwidth <= variants[target_pl].bandwidth
        /\ \A j \in (target_pl + 1)..Len(variants) :
              variants[j].bandwidth < variants[target_pl].bandwidth

C3_Witness ==
    /\ target_pl # 0
    /\ \E j \in 1..Len(variants) :
          j # target_pl /\ variants[j].bandwidth = variants[target_pl].bandwidth

\* download() has returned from step 8: an IoError of the segment loop leaves a chunk unpushed
AfterWait == result = "Ok" \/ (result = "IoError" /\ pushed = Len(segments))

(* C4: shutdown order.  The sender is dropped only after the last segment
   was pushed; the writer sees the channel closed only when the sender is
   dropped, the channel is empty and every pushed chunk has been written;
   end-of-input reaches the sink only when the writer has finished; and the
   orchestrator waits for the sink's status only after the writer task has
   finished. *)
C4_ShutdownOrder ==
    /\ (pc \in { "join", "wait" } \/ AfterWait)
          => ~tx_open /\ pushed = Len(segments)
    /\ saw_close => ~tx_open /\ chan = <<>> /\ Len(sink_in) = pushed
    /\ sink_eof => wpc = "finished"
    /\ (pc = "wait" \/ AfterWait) => wpc = "finished"
    /\ (result = "Ok" /\ saw_close) => Len(sink_in) = Len(segments)

C4_Witness ==
    /\ result = "Ok"
    /\ saw_close
    /\ sink_eof
    /\ Len(segments) >= 2
    /\ Len(sink_in) = Len(segments)

(* C5: download() never has returned an error of the segment loop (key
   fetch, transfer, decryption, failed push) while the sink process it
   spawned is still running. *)
C5_SinkTerminatedOnError == ~(result \in LoopErrors /\ sink = "running")

(* C6: when the segment loop fails after some chunks were pushed, the sink
   never receives an orderly end-of-input after only a proper prefix of the
   playlist's chunks. *)
C6_NoOrderlyEofAfterPrefix ==
    ~(result \in LoopErrors /\ sink_eof /\ Len(sink_in) >= 1 /\ Len(sink_in) < Len(segments))

(* C7: when the fetch of the playlist-level key returns fewer than 16 bytes,
   download() returns an error, no segment transfer has started, no chunk
   was pushed, no further key was fetched and no sink was spawned. *)
C7_ShortPlaylistKeyAborts ==
    (getlog # <<>> /\ getlog[1].seg = 0 /\ ShortBody(getlog[1].resp))
        => /\ result = "DecryptedError"
           /\ pc = "done"
           /\ xfers = 0
           /\ pushed = 0
           /\ Len(getlog) = 1
           /\ sink = "none"
           /\ wpc = "none"

C7_Witness ==
    /\ getlog # <<>>
    /\ getlog[1].seg = 0
    /\ getlog[1].resp.ok
    /\ Len(getlog[1].resp.body) = 8
    /\ result = "DecryptedError"

ExpectedIv(tag) ==
    IF tag.iv = None THEN [i \in 1..16 |-> 0]
    ELSE IF tag.iv = IvZeroStr THEN [i \in 1..16 |-> 0]
    ELSE [i \in 1..16 |-> 1]

OwnKeyValid ==
    /\ segments[idx].key # NoTag
    /\ segments[idx].key.method = "AES-128"
    /\ segments[idx].key.uri # NoUri
    /\ getlog # <<>>
    /\ LastGet.seg = idx
    /\ LastGet.resp.ok
    /\ Len(LastGet.resp.body) >= 16

(* C8: the pair handed to parse_segment is the segment's own pair (the first
   16 bytes of the fetched key, the tag's IV or sixteen zero bytes) exactly
   when the segment has a key tag with method AES-128, a URI and a fetched
   key of at least 16 bytes; otherwise it is the playlist-level pair. *)
C8_SegKeyPrecedence ==
    InSegment =>
        IF OwnKeyValid
        THEN seg_key = << [i \in 1..16 |-> LastGet.resp.body[i]], ExpectedIv(segments[idx].key) >>
        ELSE seg_key = << key, iv >>

C8_Witness ==
    /\ pc = "seg_decrypt"
    /\ idx = 2
    /\ OwnKeyValid
    /\ key # None
    /\ seg_key # << key, iv >>
    /\ seg_key[2] = [i \in 1..16 |-> 1]

(* C9: a per-segment key fetch that returns fewer than 16 bytes does not
   fail the pipeline: the producer goes on to the transfer of that segment
   with the playlist-level pair. *)
C9_ShortSegKeyFallsBack ==
    [][(pc = "seg_key" /\ Len(getlog') > Len(getlog) /\ ShortBody(getlog'[Len(getlog')].resp))
         => /\ pc' = "seg_xfer"
            /\ result' = "running"
            /\ idx' = idx
            /\ seg_key' = << key, iv >>
            /\ UNCHANGED << key, iv >>]_vars

C9_Witness ==
    /\ result = "Ok"
    /\ key # None
    /\ pushed = 2
    /\ \E i \in 1..Len(getlog) : getlog[i].seg = 2 /\ ShortBody(getlog[i].resp)

(* C10: during one download() no key URI is fetched more than once. *)
C10_KeyUriFetchedOnce ==
    \A i, j \in 1..Len(getlog) : getlog[i].uri = getlog[j].uri => i = j


NewChunks ==
    (IF pc = "seg_send" THEN { buf } ELSE {})
    \cup (IF ts = None THEN {} ELSE { ts })
    \cup (IF sink_in = <<>> THEN {} ELSE { sink_in[Len(sink_in)] })

FirstTagSeeds ==
    /\ segments # <<>>
    /\ segments[1].key # NoTag
    /\ segments[1].key.method = "AES-128"
    /\ segments[1].key.uri # NoUri

OwnKeyFetched(i) ==
    \E g \in 1..Len(getlog) :
        getlog[g].seg = i /\ getlog[g].resp.ok /\ Len(getlog[g].resp.body) >= 16

(* C11: only the first segment's key tag seeds the playlist-level pair: the
   pair is present only if that tag has method AES-128 and a URI, and it is
   then the first 16 bytes of the first key fetched with the tag's IV;
   without a playlist-level pair, the chunk of every segment that fetched no
   valid key of its own is the downloaded body unchanged, when it is about
   to be pushed, when the writer holds it and when it was written. *)
C11_FirstTagSeedsElsePassThrough ==
    /\ ~FirstTagSeeds => key = None /\ iv = None
    /\ key # None =>
          /\ iv # None
          /\ getlog[1].seg = 0
          /\ getlog[1].uri = segments[1].key.uri
          /\ key = [i \in 1..16 |-> getlog[1].resp.body[i]]
          /\ iv = ExpectedIv(segments[1].key)
    /\ (FirstTagSeeds /\ pc \notin { "resolve", "key", "done" }) => key # None
    /\ \A c \in NewChunks :
          (key = None /\ ~OwnKeyFetched(c.seg))
              => c.key = None /\ c.iv = None /\ c.len = segments[c.seg].body.len

C11_Witness ==
    /\ result = "Ok"
    /\ key = None
    /\ Len(sink_in) = 2
    /\ segments[1].key # NoTag
    /\ segments[1].key.method = "SAMPLE-AES"
    /\ segments[2].key # NoTag
    /\ segments[2].key.uri = NoUri
    /\ sink_in[1].key = None /\ sink_in[1].len = 30
    /\ sink_in[2].key = None /\ sink_in[2].len = 20


DigitValue(c) ==
    CASE c = "0" -> 0 [] c = "1" -> 1 [] c = "2" -> 2 [] c = "3" -> 3
      [] c = "4" -> 4 [] c = "5" -> 5 [] c = "6" -> 6 [] c = "7" -> 7
      [] c = "8" -> 8 [] c = "9" -> 9
      [] c \in { "a", "A" } -> 10 [] c \in { "b", "B" } -> 11
      [] c \in { "c", "C" } -> 12 [] c \in { "d", "D" } -> 13
      [] c \in { "e", "E" } -> 14 [] c \in { "f", "F" } -> 15

BytesDenoted(text) ==
    IF text = None THEN [i \in 1..16 |-> 0]
    ELSE LET off == Len(text) - 32
         IN  [i \in 1..16 |->
                16 * DigitValue(text[off + 2 * i - 1]) + DigitValue(text[off + 2 * i])]

(* C12: an IV text of 32 hex digits h, written "0x"+h or h, resolves to the
   16 bytes h denotes, and a key tag without IV resolves to sixteen zero
   bytes, for the playlist-level pair and for a segment's own pair; the
   resolution never panics on these texts. *)
C12_IvResolution ==
    /\ result # "panic"
    /\ key # None => iv = BytesDenoted(segments[1].key.iv)
    /\ (pc = "seg_xfer" /\ OwnKeyValid) => seg_key[2] = BytesDenoted(segments[1].key.iv)

C12_Witness ==
    /\ pc = "seg_xfer"
    /\ OwnKeyValid
    /\ Len(segments[1].key.iv) = 34
    /\ segments[1].key.iv[3] = "A"
    /\ segments[1].key.iv[4] = "b"
    /\ iv[1] = 171
    /\ seg_key[2][1] = 171
    /\ seg_key[2][16] = 204


(* C13: when the body of segment k cannot be decrypted with the pair handed
   to parse_segment (its length is no multiple of 16, or its padding does
   not validate under that key), download() returns DecryptedError and no
   chunk of segment k, nor of a later segment, is ever pushed. *)
C13_DecryptFailureIsFatal ==
    /\ [][(/\ pc = "seg_decrypt"
           /\ pc' # pc
           /\ seg_key[1] # None
           /\ seg_key[2] # None
           /\ (buf.len % 16 # 0 \/ buf.enc # seg_key[1]))
            => /\ result' = "DecryptedError"
               /\ pc' = "done"
               /\ pushed' = pushed
               /\ chan' = chan]_vars
    /\ []((result = "DecryptedError" /\ sink # "none")
            => /\ pc = "done"
               /\ pushed = idx - 1
               /\ (chan # <<>> => chan[Len(chan)].seg < idx)
               /\ (ts # None => ts.seg < idx)
               /\ (sink_in # <<>> => sink_in[Len(sink_in)].seg < idx))

C13_Witness ==
    /\ result = "DecryptedError"
    /\ idx = 2
    /\ pushed = 1
    /\ sink_in # <<>>
    /\ segments[2].body.len % 16 = 0
    /\ seg_key[1] # None


(* ------------------------------------------------------------------ *)
(* C14: a resumed transfer whose range request is honoured             *)
(* ------------------------------------------------------------------ *)
ResumedFrom == Len(att_start.data)

\* C14: with resume on and a destination that already holds L bytes, 0 < L < T, the
\* request carries Range bytes=L-; when the server answers 206 and the attempt
\* completes, the destination holds exactly T bytes: the L that were there, unchanged,
\* followed by bytes [L, T) of the source.  A retry after a mid-transfer failure thus
\* asks for the bytes after the last one written.
C14_ResumeAppendsRange ==
    /\ [][(x_pc = "begin" /\ x_pc' # x_pc /\ x_in.resume /\ dest.exists /\ dest.data # <<>>)
            => range_req' = Len(dest.data)]_vars
    /\ []((/\ x_pc \in {"stream", "done"} /\ x_in.resume /\ x_resp.ok /\ x_resp.status = 206
           /\ 0 < ResumedFrom /\ ResumedFrom < Len(x_in.src))
            => /\ range_req = ResumedFrom
               /\ IsPrefix(att_start.data, dest.data)
               /\ downloaded_size = Len(dest.data)
               /\ (x_result = "Ok"
                     => dest.data = att_start.data
                                      \o SubSeq(x_in.src, ResumedFrom + 1, Len(x_in.src))))

C14_Witness ==
    /\ x_result = "Ok" /\ x_in.resume /\ x_resp.ok /\ x_resp.status = 206
    /\ x_in.dest0.data = <<>> /\ ResumedFrom = 1 /\ Len(x_in.src) = 3
    /\ dest.data = x_in.src

(* ------------------------------------------------------------------ *)
(* C15: a range request answered with the whole body                   *)
(* ------------------------------------------------------------------ *)
\* C15: when a range was requested and the server answers with a success status other
\* than 206, the destination is truncated and written from offset 0, so a completed
\* attempt leaves exactly the T bytes of the source and no stale prefix.
C15_FullBodyTruncates ==
    /\ [][(x_pc = "begin" /\ x_pc' = "stream" /\ range_req' # NoRange /\ x_resp'.status # 206)
            => /\ dest'.data = <<>> /\ downloaded_size' = 0 /\ ~mode_append']_vars
    /\ []((/\ x_pc \in {"stream", "done"} /\ range_req # NoRange /\ x_resp.ok
           /\ x_resp.status < 400 /\ x_resp.status # 206)
            => /\ IsPrefix(dest.data, x_in.src)
               /\ downloaded_size = Len(dest.data)
               /\ (x_result = "Ok" => dest.data = x_in.src))

C15_Witness ==
    /\ x_result = "Ok" /\ range_req = 2 /\ x_resp.ok /\ x_resp.status = 200
    /\ att_start.data = Stale(2) /\ Len(x_in.src) = 3 /\ dest.data = x_in.src


(* ------------------------------------------------------------------ *)
(* C16: no per-segment skip-and-continue                               *)
(* ------------------------------------------------------------------ *)
SegmentErrors == { "Http", "HttpXError", "DecryptedError" }

\* C16: once the key fetch, the transfer or the decryption of segment k has failed,
\* download() has returned that error, and from then on no transfer is started and no
\* chunk is pushed; the pushes made before are those of segments 1..k-1, one each and
\* in playlist order, so no segment is skipped while a later one is delivered.
C16_NoSkipAndContinue ==
    /\ [][(result \in SegmentErrors)
            => /\ pc = "done"
               /\ UNCHANGED << pc, result, idx, xfers, pushed, tx_open >>
               /\ Len(chan') <= Len(chan)]_vars
    /\ [][(pushed' # pushed)
            => /\ pushed' = pushed + 1
               /\ xfers = pushed'
               /\ chan' = Append(chan, buf)
               /\ buf.seg = pushed']_vars
    /\ [][(xfers' # xfers) => (xfers' = xfers + 1 /\ xfers' = idx /\ pushed = idx - 1)]_vars
    /\ []((result \in SegmentErrors /\ idx >= 1)
            => (pushed = idx - 1 /\ xfers \in { idx - 1, idx }))

C16_Witness ==
    /\ result = "HttpXError" /\ idx = 1 /\ Len(segments) = 2 /\ xfers = 1 /\ pushed = 0
    /\ sink_eof /\ sink_in = <<>> /\ wpc = "finished"


(* ------------------------------------------------------------------ *)
(* C17: the consumer exits on a sink failure while chunks remain       *)
(* ------------------------------------------------------------------ *)
\* the writer task has ended, and not because it saw the conduit closed
ConsumerFailed == wpc = "finished" /\ ~saw_close

ProducerHasMore == result = "running" /\ pc \in { "seg_key", "seg_xfer", "seg_decrypt", "seg_send" }

\* C17: when the writer task has exited on a failed write or flush while the producer
\* still has a chunk to push, no further push succeeds: the next push, also one that was
\* suspended on a full conduit, fails with SendError and download() returns an error, or
\* an earlier step of the segment fails first; the producer neither goes on to the later
\* steps nor is left without a step to take.
C17_PushFailsAfterConsumerExit ==
    /\ [][(ConsumerFailed /\ ProducerHasMore)
            => /\ pushed' = pushed
               /\ pc' \in { "seg_key", "seg_xfer", "seg_decrypt", "seg_send", "done" }
               /\ result' # "Ok"
               /\ (pc = "seg_send" /\ pc' # pc => result' = "SendError" /\ pc' = "done")]_vars
    /\ []((ConsumerFailed /\ ProducerHasMore)
            => ENABLED (SegKey \/ SegTransfer \/ SegDecrypt \/ SegSend))

C17_Witness ==
    /\ result = "SendError" /\ ConsumerFailed /\ pushed = ChannelCap + 1
    /\ ts # None /\ ts.seg = 1 /\ sink_in = <<>> /\ idx = ChannelCap + 2


(* ------------------------------------------------------------------ *)
(* C18: Ok needs a successful exit status of the sink                  *)
(* ------------------------------------------------------------------ *)
\* C18: download() returns Ok only if the sink exited with a success status; when the
\* sink exits with a failure status download() returns an error, also when every
\* segment was fetched, decrypted and pushed.
C18_OkOnlyOnSinkSuccess ==
    /\ [][(pc = "wait" /\ pc' # pc)
            => /\ sink \in { "exit_ok", "exit_fail" }
               /\ (sink = "exit_fail" => result' = "IoError")]_vars
    /\ [](result = "Ok" => sink = "exit_ok")

C18_Witness ==
    /\ result = "IoError" /\ sink = "exit_fail" /\ segments # <<>>
    /\ pushed = Len(segments) /\ Len(sink_in) = Len(segments) /\ saw_close


(* ------------------------------------------------------------------ *)
(* C19: a failed write or flush to the sink                            *)
(* ------------------------------------------------------------------ *)
\* C19: when a write or a flush of a chunk to the sink's stdin has failed, download()
\* does not return Ok; equivalently, Ok implies that the writer task ended on the closed
\* conduit and that every segment's chunk was written to the sink.
C19_WriteFailureIsFatal ==
    (result = "Ok") => (~ConsumerFailed /\ Len(sink_in) = Len(segments))


(* ------------------------------------------------------------------ *)
(* C20: the number of resolution steps                                 *)
(* ------------------------------------------------------------------ *)
\* C20: download_playlist fetches at most 10 playlists: when every playlist fetched is a
\* master playlist it stops by then with an error instead of fetching on.
C20_ResolutionBounded ==
    /\ hops <= 10
    /\ (hops = 10 => pc # "resolve")


(* ------------------------------------------------------------------ *)
(* C21: a playlist body that does not parse                            *)
(* ------------------------------------------------------------------ *)
\* the resolution loop ended on a fetched body that is not a playlist
EndedOnGarbage ==
    /\ pc = "done" /\ idx = 0 /\ hops >= 1
    /\ Page(url, segments).type = "garbage"
    /\ result # "Http"

\* C21: when a fetched playlist body cannot be parsed, download() returns an error
\* value to its caller rather than panicking, and no sink process has been spawned.
C21_ParseErrorReturned ==
    EndedOnGarbage => (IsErr(result) /\ result # "panic" /\ sink = "none")


(* ------------------------------------------------------------------ *)
(* C22: the error value and the stage that failed                      *)
(* ------------------------------------------------------------------ *)
\* C22: the error download() returns tells the failing stage apart: DecryptedError is
\* returned only when the decryption of a transferred segment failed (not for a
\* playlist key that is too short), and IoError only when the sink exited with a
\* failure status (not for a segment's file that could not be read).
C22_ErrorIdentifiesStage ==
    /\ (result = "DecryptedError" => (idx >= 1 /\ xfers = idx))
    /\ (result = "IoError" => (sink = "exit_fail" /\ wpc = "finished" /\ pushed = Len(segments)))


(* ------------------------------------------------------------------ *)
(* C23: the segment's temporary file                                   *)
(* ------------------------------------------------------------------ *)
\* C23: at most one segment temporary file exists at any time, it exists only while
\* parse_segment holds a transferred segment, and none exists once download() has
\* returned, whichever way parse_segment ended.
C23_TmpFileReleased ==
    /\ tmp_files \in { 0, 1 }
    /\ (tmp_files = 1 => pc \in { "seg_decrypt", "seg_send" })
    /\ (pc \notin { "seg_decrypt", "seg_send" } => tmp_files = 0)
    /\ (result # "running" => tmp_files = 0)

C23_Witness ==
    /\ result = "SendError" /\ tmp_files = 0 /\ xfers = 2 /\ pushed = 1 /\ idx = 2


(* ------------------------------------------------------------------ *)
(* C24: incremental mode                                               *)
(* ------------------------------------------------------------------ *)
\* C24: with the incremental flag, a download that finds its output file existing is the
\* last one: the process ends successfully there and downloads nothing after it; without
\* the flag an existing file only skips that video and the loop goes on with the next.
C24_IncrementalStops ==
    /\ [](m_args.incremental
            => \A i \in 1..Len(m_log) :
                 m_log[i].res = "exist" => (i = Len(m_log) /\ m_pc = "done" /\ m_exit = "ok"))
    /\ [][(m_log' # m_log /\ m_log'[Len(m_log')].res = "exist")
            => /\ m_files' = m_files
               /\ (m_args.incremental => m_exit' = "ok")
               /\ (~m_args.incremental
                     => /\ m_exit' = "running"
                        /\ (m_pc = "video" => (m_pc' = "url" /\ m_url' = m_url + 1))
                        /\ (m_pc = "channel"
                              => (m_pc' = "channel" /\ m_vid' = m_vid + 1 /\ m_url' = m_url)))]_vars

C24_Witness ==
    /\ m_args.incremental /\ m_exit = "ok" /\ Len(m_log) = 2
    /\ m_log[1].res = "ok" /\ m_log[2].res = "exist"
    /\ m_args.urls[1].kind = "channel" /\ Len(m_args.urls[1].vids) = 2 /\ m_url = 1 /\ m_vid = 2
    /\ Len(m_args.urls) = 2


(* ------------------------------------------------------------------ *)
(* C25: the producer is sequential                                     *)
(* ------------------------------------------------------------------ *)
\* C25: the producer does one thing at a time: a step is a key fetch or a transfer, never
\* both; the transfer of segment k+1 starts only when the chunks of segments 1..k have all
\* been accepted by the conduit; the conduit grows only by the producer's push and shrinks
\* only by the consumer's receive (or when the consumer drops it on exit).
C25_ProducerSequential ==
    /\ [][(xfers' # xfers)
            => (pc = "seg_xfer" /\ xfers' = idx /\ pushed = xfers /\ getlog' = getlog)]_vars
    /\ [][(getlog' # getlog)
            => /\ pc \in { "key", "seg_key" } /\ xfers' = xfers /\ pushed' = pushed
               /\ Len(getlog') = Len(getlog) + 1
               /\ (pc = "seg_key" => (pushed = idx - 1 /\ xfers = idx - 1))]_vars
    /\ [][(Len(chan') > Len(chan))
            => (pc = "seg_send" /\ chan' = Append(chan, buf) /\ UNCHANGED writer_vars)]_vars
    /\ [][(chan' # chan /\ Len(chan') <= Len(chan) /\ sink # "none")
            => /\ UNCHANGED << pc, idx, pushed, xfers >>
               /\ \/ (wpc = "recv" /\ ts' = Head(chan) /\ chan' = Tail(chan))
                  \/ (wpc = "shutdown" /\ chan' = <<>>)]_vars

C25_Witness ==
    /\ pc = "seg_decrypt" /\ idx = 2 /\ xfers = 2 /\ pushed = 1 /\ wpc = "write"
    /\ ts # None /\ ts.seg = 1 /\ chan = <<>>


(* ------------------------------------------------------------------ *)
(* C26: how far the producer runs ahead of the sink                    *)
(* ------------------------------------------------------------------ *)
\* segments whose decryption the producer has finished
Decrypted == pushed + (IF pc = "seg_send" THEN 1 ELSE 0)

\* chunks whose write to the sink's stdin has completed
Written == Len(sink_in)

\* C26 as stated: the producer is never more than N = 100 segments ahead of the sink.
C26_AheadAtMostCap == Decrypted - Written <= ChannelCap

\* C26, amended: the producer is never more than N + 2 = 102 segments ahead of the sink:
\* N chunks in the conduit, one the consumer has received and not yet written, and one
\* the producer has decrypted and not yet pushed.
C26_AheadAtMostCapPlusTwo == Decrypted - Written <= ChannelCap + 2

C26_Witness ==
    /\ Decrypted - Written = ChannelCap + 2
    /\ Len(chan) = ChannelCap /\ ts # None /\ pc = "seg_send" /\ wpc = "write"
    /\ sink = "running" /\ idx < Len(segments)


(* ------------------------------------------------------------------ *)
(* C27: the consumer: receive, write, flush                            *)
(* ------------------------------------------------------------------ *)
\* C27: the consumer task exists before the first push; it takes the oldest chunk of the
\* conduit, writes it, and flushes before it receives the next one, so that a flush lies
\* between the completed writes of two consecutive chunks and chunk k+1 is not begun
\* before the write of chunk k has completed.
C27_ConsumerWritesThenFlushes ==
    /\ [](pushed >= 1 => wpc # "none")
    /\ [][(pushed' # pushed) => wpc # "none"]_vars
    /\ [][(wpc' = "write" /\ wpc # "write")
            => (wpc = "recv" /\ chan # <<>> /\ ts' = Head(chan) /\ chan' = Tail(chan))]_vars
    /\ [][(sink_in' # sink_in)
            => (wpc = "write" /\ wpc' = "flush" /\ sink_in' = Append(sink_in, ts))]_vars
    /\ [][(wpc' = "recv" /\ wpc # "recv") => wpc \in { "none", "flush" }]_vars
    /\ [][(wpc = "flush" /\ wpc' # wpc) => wpc' \in { "recv", "final_flush" }]_vars
    /\ [](wpc = "write" => (ts # None /\ (sink_in # <<>> => sink_in[Len(sink_in)].seg < ts.seg)))

C27_Witness ==
    /\ Len(sink_in) = 2 /\ wpc = "flush" /\ ts # None /\ ts.seg = 2 /\ sink_in[1].seg = 1


(* ------------------------------------------------------------------ *)
(* C28: the playlist-level pair is fixed                               *)
(* ------------------------------------------------------------------ *)
\* C28: the key is present exactly when the IV is, for the playlist-level pair and for the
\* pair handed to parse_segment; after its establishment no step changes the
\* playlist-level pair; a segment without a key tag gets the playlist-level pair, also
\* when the segment before it used a key of its own.
C28_PlaylistPairFixed ==
    /\ []((key = None) <=> (iv = None))
    /\ []((seg_key[1] = None) <=> (seg_key[2] = None))
    /\ [][(pc # "key") => UNCHANGED << key, iv >>]_vars
    /\ []((key # None)
            => (getlog # <<>> /\ getlog[1].seg = 0 /\ getlog[1].resp.ok
                /\ key = [i \in 1..16 |-> getlog[1].resp.body[i]]))
    /\ [][(pc = "seg_key" /\ pc' = "seg_xfer" /\ segments[idx].key = NoTag)
            => seg_key' = << key, iv >>]_vars

C28_Witness ==
    /\ pc = "seg_xfer" /\ idx = 2 /\ segments[2].key = NoTag
    /\ key # None /\ seg_key = << key, iv >>
    /\ Len(getlog) = 2 /\ getlog[2].seg = 1 /\ getlog[2].resp.ok
    /\ Len(getlog[2].resp.body) >= 16
    /\ [i \in 1..16 |-> getlog[2].resp.body[i]] # key


(* ------------------------------------------------------------------ *)
(* C30: a retried transfer against a server that behaves               *)
(* ------------------------------------------------------------------ *)
\* C30: whatever part of the source the failed attempts of this call have left in the
\* destination (nothing, a proper prefix, or all of it), an attempt that is answered by
\* a server honouring Range gets to stream the body, and a completed call leaves the
\* destination equal to the source.
C30_RetryConverges ==
    /\ [][(/\ x_pc = "begin" /\ x_pc' # x_pc /\ x_in.resume /\ x_in.dest0.data = <<>>
           /\ IsPrefix(dest.data, x_in.src)
           /\ x_resp' = Honour(x_in.src, range_req'))
            => x_pc' = "stream"]_vars
    /\ []((x_result = "Ok" /\ x_in.resume /\ x_in.dest0.data = <<>>) => dest.data = x_in.src)


(* ------------------------------------------------------------------ *)
(* C29: no deadlock                                                    *)
(* ------------------------------------------------------------------ *)
\* C29: while download() has not returned and the sink exists, some task or the sink can
\* take a step: there is no state in which the producer, the consumer and the sink all
\* wait on one another, whatever the sink writes to its stderr.
C29_NoDeadlock ==
    (result = "running" /\ sink # "none") => ENABLED NextPipe


(* ------------------------------------------------------------------ *)
(* C31: the sink is spawned after resolution and the playlist key      *)
(* ------------------------------------------------------------------ *)
\* download() ended inside the resolution loop or the playlist-level key step
FailsBeforeSpawn == pc \in { "resolve", "key" } /\ pc' = "done"

\* the step that starts the sink process
SinkStarts == sink # "running" /\ sink' = "running"

\* the playlist-level key of a playlist whose first segment declares one is in place
PlaylistKeyReady ==
    (segments # <<>> /\ DeclaresKey(segments[1].key)) => (key # None /\ Len(key) = KeyLen)

\* C31: the sink process is started only once the resolution loop has reached a media
\* playlist and the playlist-level key, if declared, has been fetched with at least 16
\* bytes; a failure during resolution or during the key step makes download() return an
\* error value with no sink process and no writer task created; and the sink process is
\* started at most once per call of download().
C31_SinkOnlyAfterKey ==
    [][ /\ FailsBeforeSpawn =>
             (IsErr(result') /\ result' # "panic" /\ sink' = "none" /\ wpc' = "none")
        /\ SinkStarts =>
             (sink = "none" /\ pc = "spawn" /\ Page(url, segments).type = "media"
              /\ PlaylistKeyReady)
        /\ (sink # "none" => sink' # "none") ]_vars


(* ------------------------------------------------------------------ *)
(* C32: a key fetch answered with an error status                      *)
(* ------------------------------------------------------------------ *)
\* the server answered, with a 4xx or 5xx status
ErrorStatus(r) == r.ok /\ r.status >= 400

\* C32: a key fetch that the server answers with an error status and a body of at least
\* 16 bytes counts as a transport failure: download() ends with the HTTP error at that
\* fetch, and the body is neither stored as the playlist-level key nor handed to
\* parse_segment as the key of a segment.
C32_ErrorStatusIsNoKey ==
    \A i \in 1..Len(getlog) :
        (ErrorStatus(getlog[i].resp) /\ ~KeyTooShort(getlog[i].resp.body)) =>
            /\ i = Len(getlog) /\ pc = "done" /\ result = "Http"
            /\ key # Take(getlog[i].resp.body, KeyLen)
            /\ seg_key[1] # Take(getlog[i].resp.body, KeyLen)


(* ------------------------------------------------------------------ *)
(* C33: the signal handler and the registry of downloads in flight     *)
(* ------------------------------------------------------------------ *)
\* download_video is running for the video of the current call
InDownloadVideo == d_pc \in { "dv_info", "dv_thumbnail", "dv_hls", "dv_ffmpeg" }

\* the registry holds the output path of the running download_video and nothing else
RegistryTracksDownload ==
    d_exit = "running" =>
        DOWNLOADING_FILES = IF InDownloadVideo
                            THEN << output_file(d_args.vids[d_call]) >>
                            ELSE <<>>

\* C33: an output path is in DOWNLOADING_FILES exactly while download_video runs for it
\* (it leaves the registry when download_video succeeds and when it fails), and whenever
\* the signal arrives the handler removes no file that existed at its output path before
\* the run started.
C33_HandlerSparesExistingFiles ==
    /\ RegistryTracksDownload
    /\ removed \cap disk_before = {}

====
